---- MODULE Spec2Model ----
(***************************************************************************)
(* Model of the fingerprint extraction pipeline of                         *)
(* src/fingerprinting/genotype.py: genotype() and the stages it drives.    *)
(* Text is modelled as sequences of one-character strings, files as        *)
(* [m |-> modification time (0 = missing), lines |-> sequence of lines].   *)
(***************************************************************************)
EXTENDS Integers, Sequences, FiniteSets, TLC

DEPTH_CUTOFF == 5

\* ---- bounds ----
MaxDP == 6
MaxCutoff == 5
MaxRuns == 2
MaxJobRuns == 3
MaxTouch == 1
MaxRewrites == 3

\* ------------------------------------------------------------------------
\* Text helpers (Python str methods used by the source)
\* ------------------------------------------------------------------------

\* code point order of the characters that occur in allele strings
Ord(c) ==
  CASE c = "." -> 46 [] c = "/" -> 47 [] c = "A" -> 65 [] c = "C" -> 67
    [] c = "G" -> 71 [] c = "N" -> 78 [] c = "T" -> 84 [] OTHER -> 0

\* str.lower() on one character
LowerChar(c) ==
  CASE c = "X" -> "x" [] c = "Y" -> "y" [] c = "C" -> "c"
    [] c = "H" -> "h" [] c = "R" -> "r" [] OTHER -> c

lower(s) == [k \in 1..Len(s) |-> LowerChar(s[k])]

\* str.split(sep) for a one-character separator
RECURSIVE split(_, _)
split(s, sep) ==
  IF \E k \in 1..Len(s) : s[k] = sep
  THEN LET k == CHOOSE k \in 1..Len(s) : s[k] = sep /\ \A j \in 1..(k-1) : s[j] # sep
       IN <<SubSeq(s, 1, k-1)>> \o split(SubSeq(s, k+1, Len(s)), sep)
  ELSE <<s>>

\* str comparison a <= b (lexicographic by code point)
RECURSIVE StrLeq(_, _)
StrLeq(a, b) ==
  IF Len(a) = 0 THEN TRUE
  ELSE IF Len(b) = 0 THEN FALSE
  ELSE IF Ord(a[1]) < Ord(b[1]) THEN TRUE
  ELSE IF Ord(a[1]) > Ord(b[1]) THEN FALSE
  ELSE StrLeq(Tail(a), Tail(b))

\* insertion of x into a sorted list of strings
RECURSIVE insert(_, _)
insert(x, l) ==
  IF Len(l) = 0 THEN <<x>>
  ELSE IF StrLeq(x, l[1]) THEN <<x>> \o l
  ELSE <<l[1]>> \o insert(x, Tail(l))

\* sorted(list of str)
RECURSIVE sorted(_)
sorted(l) == IF Len(l) = 0 THEN <<>> ELSE insert(l[1], sorted(Tail(l)))

\* ''.join(list of str)
RECURSIVE join(_)
join(l) == IF Len(l) = 0 THEN <<>> ELSE l[1] \o join(Tail(l))

NN == <<"N", "N">>

\* ------------------------------------------------------------------------
\* Variant records and the genotype encoder
\* ------------------------------------------------------------------------

\* fingerprinting.utils.is_sex_chrom
is_sex_chrom(chrom) ==
  lower(chrom) \in { <<"x">>, <<"y">>, <<"c","h","r","x">>, <<"c","h","r","y">> }

\* the sample call's alleles: REF is allele 0, ALT is allele 1
alleles(r) == <<r.REF, r.ALT>>

\* var.called as the VCF parser sets it: the GT field is not ./.
called(r) == r.GT # <<>>

\* var.gt_bases: the called alleles joined by the phase character "/"
gt_bases_of(r) == alleles(r)[r.GT[1] + 1] \o <<"/">> \o alleles(r)[r.GT[2] + 1]

\* the depth test with <= for <
depth_failed_inclusive(r, cutoff) == r.DP <= cutoff

\* line 205
depth_failed(r, cutoff) == r.DP < cutoff

filter_failed(r) ==
  \E k \in 1..Len(r.FILTER) : r.FILTER[k] \in {"MSI12", "InGap"}

\* vcfrec_to_seq with the sex-linked branch returning the sentinel
vcfrec_to_seq_sexNN(r, cutoff) ==
  LET var_called == IF depth_failed(r, cutoff) \/ filter_failed(r) THEN FALSE ELSE called(r)
  IN IF is_sex_chrom(r.CHROM) THEN NN
     ELSE IF var_called THEN join(sorted(split(gt_bases_of(r), "/")))
     ELSE NN

vcfrec_to_seq(r, cutoff) ==
  LET var_called == IF depth_failed(r, cutoff) \/ filter_failed(r) THEN FALSE ELSE called(r)
  IN IF is_sex_chrom(r.CHROM) THEN <<>>
     ELSE IF var_called THEN join(sorted(split(gt_bases_of(r), "/")))
     ELSE NN

\* ------------------------------------------------------------------------
\* Files, paths and the reuse check
\* ------------------------------------------------------------------------

Names == {"a", "b"}

\* the cohorts genotype() is called with (sample names are distinct)
Cohorts == { <<"a", "b">>, <<"b", "a">> }

\* the cohort of the runs that look at one dispatcher job
JobCohorts == { <<"a">> }

\* a path is <<directory, base name, suffix, extension>>
fpath(dir, base, ext) == <<dir, base, "", ext>>

\* ngs_utils add_suffix / intermediate_fname: insert a suffix before the extension
add_suffix(p, suf) == <<p[1], p[2], p[3] \o "." \o suf, p[4]>>

intermediate_fname(work_dir, p, suf) == <<work_dir, p[2], p[3] \o "." \o suf, p[4]>>

output_dir == "out"
work_dir == "work"

bam(s) == fpath("bams", s, ".bam")
snp_bed == fpath("panel", "snps", ".bed")
autosomal_bed == intermediate_fname(work_dir, snp_bed, "autosomal")
sex_bed == intermediate_fname(work_dir, snp_bed, "sex")

\* _vardict_pileup_sample's output paths, a constant base name instead of sample.name
vardict_snp_vars_shared(s) == fpath(output_dir \o "/vcf", "a", "_vars.txt")

vardict_snp_vars(s) == fpath(output_dir \o "/vcf", s, "_vars.txt")
vardict_snp_vars_vcf(s) == fpath(output_dir \o "/vcf", s, ".vcf")
fasta_by_sample(s) == fpath(work_dir, s, ".fasta")
all_fasta == fpath(output_dir, "fingerprints", ".fasta")

Paths ==
  {snp_bed, autosomal_bed, sex_bed, all_fasta}
  \cup UNION { { bam(s), vardict_snp_vars(s), vardict_snp_vars_vcf(s),
                 add_suffix(vardict_snp_vars_vcf(s), "fixed"),
                 add_suffix(vardict_snp_vars_vcf(s), "ann"),
                 fasta_by_sample(s) } : s \in Names }

\* the files a dispatcher job of sample s may write
OwnPaths(s) ==
  { vardict_snp_vars(s), vardict_snp_vars_vcf(s), add_suffix(vardict_snp_vars_vcf(s), "fixed") }

Missing == [m |-> 0, lines |-> <<>>]

\* ngs_utils verify_file: the file exists and is not empty
verify_file(f, p) == f[p].m # 0 /\ Len(f[p].lines) > 0

\* can_reuse with the age comparison reversed
can_reuse_reversed(f, p, srcs) ==
  /\ verify_file(f, p)
  /\ \A q \in srcs : ~(f[p].m > f[q].m)

\* ngs_utils can_reuse: p exists, is not empty and is not older than any source
can_reuse(f, p, srcs) ==
  /\ verify_file(f, p)
  /\ \A q \in srcs : ~(f[p].m < f[q].m)

\* ------------------------------------------------------------------------
\* SNP panel and the lines of the variant files
\* ------------------------------------------------------------------------

BedLine(chrom, start, rsid, gene) ==
  [chrom |-> chrom, start |-> start, end |-> start + 1, name |-> <<rsid, gene>>]

Panel ==
  << BedLine(<<"c","h","r","1">>, 99, "rs1", "GENEA"),
     BedLine(<<"c","h","r","2">>, 149, "rs3", "GENEC"),
     BedLine(<<"c","h","r","X">>, 199, "rs2", "GENEB") >>

IsAutosomalLine(l) == ~is_sex_chrom(l.chrom)
IsSexLine(l) == is_sex_chrom(l.chrom)

\* a header line of the variant file of sample s
HdrLine(s) ==
  [kind |-> "#", CHROM |-> <<>>, POS |-> 0, ID |-> ".", REF |-> <<>>, ALT |-> <<>>,
   FILTER |-> <<>>, DP |-> 0, GT |-> <<>>, GENE |-> "", TYPE |-> "", SAMPLE |-> s, bam |-> bam(s)]

\* a row the caller emits for sample s
Row(s, chrom, pos, ref, alt, dp, gt, type) ==
  [kind |-> "rec", CHROM |-> chrom, POS |-> pos, ID |-> ".", REF |-> ref, ALT |-> alt,
   FILTER |-> <<>>, DP |-> dp, GT |-> gt, GENE |-> "", TYPE |-> type, SAMPLE |-> s, bam |-> bam(s)]

IsRec(l) == l.kind = "rec"
IsHdr(l) == l.kind = "#"

records(lines) == SelectSeq(lines, IsRec)
header(lines) == SelectSeq(lines, IsHdr)

\* what the external caller can print for sample s over the autosomal panel
CallerOutputs(s) ==
  LET c1 == <<"c","h","r","1">>
      c2 == <<"c","h","r","2">>
      het == Row(s, c1, 100, <<"T">>, <<"C">>, 30, <<0,1>>, "SNV")
      low == Row(s, c1, 100, <<"T">>, <<"C">>, 3, <<0,1>>, "SNV")
      ins == Row(s, c1, 100, <<"T">>, <<"T","C">>, 30, <<0,1>>, "Insertion")
      off == Row(s, c1, 101, <<"G">>, <<"A">>, 30, <<1,1>>, "SNV")
      hom == Row(s, c2, 150, <<"G">>, <<"G">>, 5, <<0,0>>, "REF")
      noc == Row(s, c2, 150, <<>>, <<>>, 0, <<>>, "REF")
  IN { <<het, hom>>, <<low, noc>>, <<ins, hom>>, <<het, off, hom>> }

KeepType(l) == l.TYPE \in {"SNV", "REF"}

\* cut | teststrandbias | var2vcf_valid | grep "^#\|TYPE=SNV\|TYPE=REF"
var2vcf(s, rows) == <<HdrLine(s), HdrLine(s)>> \o SelectSeq(rows, KeepType)

\* the rewrite _fix_vcf applies to one line
fix_line(l) ==
  IF IsRec(l) /\ l.REF \in { <<".">>, <<>> }
  THEN [l EXCEPT !.REF = <<".">>, !.ALT = <<".">>]
  ELSE l

fix_lines(lines) == [k \in 1..Len(lines) |-> fix_line(lines[k])]

\* _annotate_vcf's lookup tables, keyed by (chrom, start + 1)
snp_keys(bed) == { <<bed[k].chrom, bed[k].start + 1>> : k \in 1..Len(bed) }

bed_line_at(bed, key) ==
  bed[CHOOSE k \in 1..Len(bed) : <<bed[k].chrom, bed[k].start + 1>> = key
        /\ \A j \in (k+1)..Len(bed) : <<bed[j].chrom, bed[j].start + 1>> # key]

rsid_by_snp(bed, key) == bed_line_at(bed, key).name[1]
gene_by_snp(bed, key) == bed_line_at(bed, key).name[2]

annotate_rec(bed, l) ==
  [l EXCEPT !.GENE = gene_by_snp(bed, <<l.CHROM, l.POS>>),
            !.ID = rsid_by_snp(bed, <<l.CHROM, l.POS>>)]

\* index of the first record whose (CHROM, POS) is not in the panel, 0 if none
first_miss(bed, recs) ==
  IF \E k \in 1..Len(recs) : <<recs[k].CHROM, recs[k].POS>> \notin snp_keys(bed)
  THEN CHOOSE k \in 1..Len(recs) :
         /\ <<recs[k].CHROM, recs[k].POS>> \notin snp_keys(bed)
         /\ \A j \in 1..(k-1) : <<recs[j].CHROM, recs[j].POS>> \in snp_keys(bed)
  ELSE 0

\* the header vcf.Writer prints from the parsed template: the library decides
\* how many lines it takes
WriterHeaders(hdr) ==
  {hdr} \cup (IF Len(hdr) > 1 THEN {SubSeq(hdr, 1, Len(hdr) - 1)} ELSE {})

\* the fingerprint record vcf_to_fasta writes
fasta_lines(s, recs, cutoff) ==
  << <<">", s>>, join([k \in 1..Len(recs) |-> vcfrec_to_seq(recs[k], cutoff)]) >>

\* the merged content: the fingerprint files in reverse order of the samples
RECURSIVE merged_lines_reversed(_, _)
merged_lines_reversed(f, smpls) ==
  IF Len(smpls) = 0 THEN <<>>
  ELSE merged_lines_reversed(f, Tail(smpls)) \o f[fasta_by_sample(smpls[1])].lines

\* the merged content: the fingerprint files in the order of the samples
RECURSIVE merged_lines(_, _)
merged_lines(f, smpls) ==
  IF Len(smpls) = 0 THEN <<>>
  ELSE f[fasta_by_sample(smpls[1])].lines \o merged_lines(f, Tail(smpls))

RECURSIVE sum_depths(_)
sum_depths(recs) == IF Len(recs) = 0 THEN 0 ELSE recs[1].DP + sum_depths(Tail(recs))

\* ------------------------------------------------------------------------
\* Stage helpers
\* ------------------------------------------------------------------------

NoPath == <<>>

MaxCohort == Cardinality(Names)

Range(q) == { q[k] : k \in 1..Len(q) }

index_of(smpls, s) == CHOOSE k \in 1..Len(smpls) : smpls[k] = s

\* view.run's result list filled in completion order
ResultSlotCompletion(v, k, p) ==
  LET free == CHOOSE j \in 1..MaxCohort : v[j] = NoPath /\ \A h \in 1..(j-1) : v[h] # NoPath
  IN [v EXCEPT ![free] = p]

\* view.run returns the jobs' results in the order of its argument list
ResultSlot(v, k, p) == [v EXCEPT ![k] = p]

\* dict(zip([s.name for s in samples], vcfs))
zip_dict(smpls, v) ==
  [s \in Names |-> IF s \in Range(smpls) THEN v[index_of(smpls, s)] ELSE NoPath]

\* line 95 with the second reuse check left out
job_can_reuse_raw_only(f, s) ==
  can_reuse(f, vardict_snp_vars(s), {bam(s), autosomal_bed})

\* line 95: the job's reuse condition
job_can_reuse(f, s) ==
  /\ can_reuse(f, vardict_snp_vars(s), {bam(s), autosomal_bed})
  /\ can_reuse(f, vardict_snp_vars_vcf(s), {vardict_snp_vars(s)})

\* the line-count comparison with >= for ==
same_line_count_geq(f, a, b) == Len(f[a].lines) >= Len(f[b].lines)

\* len(open(a).readlines()) == len(open(b).readlines())
same_line_count(f, a, b) == Len(f[a].lines) = Len(f[b].lines)

\* the rename done whether or not the assertion holds
commit_unchecked(f, tmp, dst, ok) == [f EXCEPT ![dst] = f[tmp], ![tmp] = Missing]

\* assert ...; os.rename(tmp, dst): the rename is reached only if the assertion holds
commit(f, tmp, dst, ok) ==
  IF ok THEN [f EXCEPT ![dst] = f[tmp], ![tmp] = Missing] ELSE f

\* the annotation loop going on after an exception
annotate_next_swallow(ok, k, n) ==
  IF k < n THEN <<"annotate", k + 1>> ELSE <<"encode", 1>>

\* lines 38-39: an exception leaves genotype(), otherwise the loop goes on
annotate_next(ok, k, n) ==
  IF ~ok THEN <<"failed", k>>
  ELSE IF k < n THEN <<"annotate", k + 1>> ELSE <<"encode", 1>>

\* lines 49-53: the cohort file after the merge step at time t
merge_effect(f, smpls, t) ==
  IF ~can_reuse(f, all_fasta, { fasta_by_sample(s) : s \in Range(smpls) })
  THEN [f EXCEPT ![all_fasta] = [m |-> t, lines |-> merged_lines(f, smpls)]]
  ELSE f

VARIABLES
  fs,             \* the file system: path -> file
  clock,          \* time of the latest write
  samples,        \* the samples genotype() was called with, in order
  pc,             \* where genotype() is
  job,            \* where each sample's dispatcher job is
  i,              \* index of the sample the current loop is at
  vcfs,           \* view.run's result list
  vcf_by_sample,
  sex_by_sample,
  run,            \* number of calls of genotype() so far
  envsteps,       \* number of changes made to the files from outside
  hist,           \* history: last operation, stages passed in this run, last good run
  rec, depth_cutoff, gt_bases   \* one call of vcfrec_to_seq

pipevars == <<fs, clock, samples, pc, job, i, vcfs, vcf_by_sample, sex_by_sample, run,
              envsteps, hist>>
encvars == <<rec, depth_cutoff, gt_bases>>
vars == <<fs, clock, samples, pc, job, i, vcfs, vcf_by_sample, sex_by_sample, run,
          envsteps, hist, rec, depth_cutoff, gt_bases>>

FastaPaths == {all_fasta} \cup { fasta_by_sample(s) : s \in Names }

NoPrev == [valid |-> FALSE, samples |-> <<>>, files |-> [p \in FastaPaths |-> Missing]]

InitFiles ==
  [p \in Paths |->
     IF p = snp_bed THEN [m |-> 1, lines |-> Panel]
     ELSE IF \E s \in Names : p = bam(s) THEN [m |-> 1, lines |-> <<"reads">>]
     ELSE Missing]

InitPipe ==
  /\ fs = InitFiles
  /\ clock = 1
  /\ samples = <<>>
  /\ pc = "idle"
  /\ job = [s \in Names |-> "none"]
  /\ i = 1
  /\ vcfs = [k \in 1..MaxCohort |-> NoPath]
  /\ vcf_by_sample = [s \in Names |-> NoPath]
  /\ sex_by_sample = [s \in Names |-> <<>>]
  /\ run = 0
  /\ envsteps = 0
  /\ hist = [last |-> <<"init", "">>, ok |-> {}, cohort_written |-> FALSE, prev |-> NoPrev]

Chroms ==
  { <<"c","h","r","1">>, <<"2">>, <<"c","h","r","X">>, <<"X">>, <<"y">>, <<"C","H","R","Y">> }

Filters == { <<>>, <<"MSI12">>, <<"InGap">>, <<"q22.5">>, <<"q22.5", "InGap">> }

RefAlt == { <<"C","T">>, <<"T","C">>, <<"G","A">> }

Genotypes == { <<>>, <<0,0>>, <<0,1>>, <<1,0>>, <<1,1>> }

RecDomain ==
  { [CHROM |-> c, POS |-> 100, REF |-> <<ra[1]>>, ALT |-> <<ra[2]>>, DP |-> d,
     FILTER |-> f, GT |-> g] :
      c \in Chroms, ra \in RefAlt, d \in (MaxCutoff - 2)..MaxDP, f \in Filters, g \in Genotypes }

NoRec == [CHROM |-> <<>>, POS |-> 0, REF |-> <<>>, ALT |-> <<>>, DP |-> 0,
          FILTER |-> <<>>, GT |-> <<>>]

Unset == <<"?">>

\* ------------------------------------------------------------------------
\* genotype(): one action per step
\* ------------------------------------------------------------------------

\* _split_bed: the two panel subsets are written unless both can be reused
split_bed(f, t) ==
  IF ~can_reuse(f, autosomal_bed, {snp_bed}) \/ ~can_reuse(f, sex_bed, {snp_bed})
  THEN [f EXCEPT ![autosomal_bed] = [m |-> t, lines |-> SelectSeq(f[snp_bed].lines, IsAutosomalLine)],
                 ![sex_bed] = [m |-> t, lines |-> SelectSeq(f[snp_bed].lines, IsSexLine)]]
  ELSE f

\* genotype(samples, ...) is called: _split_bed runs and the jobs are submitted
StartRun(cohort, limit) ==
  /\ pc \in {"idle", "done", "failed"}
  /\ run < limit
  /\ run' = run + 1
  /\ samples' = cohort
  /\ fs' = split_bed(fs, clock + 1)
  /\ clock' = IF fs' = fs THEN clock ELSE clock + 1
  /\ pc' = "dispatch"
  /\ job' = [s \in Names |-> IF s \in Range(cohort) THEN "start" ELSE "none"]
  /\ i' = 1
  /\ vcfs' = [k \in 1..MaxCohort |-> NoPath]
  /\ vcf_by_sample' = [s \in Names |-> NoPath]
  /\ sex_by_sample' = [s \in Names |-> <<>>]
  /\ hist' = [last |-> <<"start", "">>, ok |-> {}, cohort_written |-> FALSE,
              prev |-> IF pc = "done" /\ hist.prev.valid /\ hist.prev.samples = cohort
                       THEN hist.prev ELSE NoPrev]
  /\ UNCHANGED <<envsteps, rec, depth_cutoff, gt_bases>>

\* _vardict_pileup_sample, lines 95-96: both outputs can be reused
JobReuse(s) ==
  /\ pc = "dispatch" /\ job[s] = "start"
  /\ job_can_reuse(fs, s)
  /\ job' = [job EXCEPT ![s] = "done"]
  /\ vcfs' = ResultSlot(vcfs, index_of(samples, s), vardict_snp_vars_vcf(s))
  /\ hist' = [hist EXCEPT !.last = <<"reuse", s>>, !.ok = @ \cup {<<"job", s>>}]
  /\ UNCHANGED <<fs, clock, samples, pc, i, vcf_by_sample, sex_by_sample, run, envsteps,
                 rec, depth_cutoff, gt_bases>>

\* lines 98-113: the caller runs and its output becomes the raw pileup file
RunVarDict(s) ==
  /\ pc = "dispatch" /\ job[s] = "start"
  /\ ~job_can_reuse(fs, s)
  /\ \E rows \in CallerOutputs(s) :
       fs' = [fs EXCEPT ![vardict_snp_vars(s)] = [m |-> clock + 1, lines |-> rows]]
  /\ clock' = clock + 1
  /\ job' = [job EXCEPT ![s] = "called"]
  /\ hist' = [hist EXCEPT !.last = <<"vardict", s>>]
  /\ UNCHANGED <<samples, pc, i, vcfs, vcf_by_sample, sex_by_sample, run, envsteps,
                 rec, depth_cutoff, gt_bases>>

\* lines 116-123: the raw pileup file is converted and filtered
Convert(s) ==
  /\ pc = "dispatch" /\ job[s] = "called"
  /\ fs' = [fs EXCEPT ![vardict_snp_vars_vcf(s)] =
              [m |-> clock + 1, lines |-> var2vcf(s, fs[vardict_snp_vars(s)].lines)]]
  /\ clock' = clock + 1
  /\ job' = [job EXCEPT ![s] = "converted"]
  /\ hist' = [hist EXCEPT !.last = <<"convert", s>>]
  /\ UNCHANGED <<samples, pc, i, vcfs, vcf_by_sample, sex_by_sample, run, envsteps,
                 rec, depth_cutoff, gt_bases>>

\* _fix_vcf, lines 134-156: the repaired copy is written
FixWrite(s) ==
  /\ pc = "dispatch" /\ job[s] = "converted"
  /\ fs' = [fs EXCEPT ![add_suffix(vardict_snp_vars_vcf(s), "fixed")] =
              [m |-> clock + 1, lines |-> fix_lines(fs[vardict_snp_vars_vcf(s)].lines)]]
  /\ clock' = clock + 1
  /\ job' = [job EXCEPT ![s] = "fixing"]
  /\ hist' = [hist EXCEPT !.last = <<"fix_write", s>>]
  /\ UNCHANGED <<samples, pc, i, vcfs, vcf_by_sample, sex_by_sample, run, envsteps,
                 rec, depth_cutoff, gt_bases>>

\* _fix_vcf, lines 158-162, and the job's return
FixCommit(s) ==
  /\ pc = "dispatch" /\ job[s] = "fixing"
  /\ LET dst == vardict_snp_vars_vcf(s)
         tmp == add_suffix(dst, "fixed")
         ok == verify_file(fs, tmp) /\ same_line_count(fs, dst, tmp)
     IN /\ fs' = commit(fs, tmp, dst, ok)
        /\ job' = [job EXCEPT ![s] = IF ok THEN "done" ELSE "failed"]
        /\ vcfs' = IF ok THEN ResultSlot(vcfs, index_of(samples, s), dst) ELSE vcfs
        /\ hist' = [hist EXCEPT !.last = <<IF ok THEN "fix" ELSE "fix_failed", s>>,
                                !.ok = IF ok THEN @ \cup {<<"job", s>>} ELSE @]
  /\ UNCHANGED <<clock, samples, pc, i, vcf_by_sample, sex_by_sample, run, envsteps,
                 rec, depth_cutoff, gt_bases>>

\* the job dies before it commits an output: vardict.pl is not found (line 105),
\* or the caller or the conversion exits with an error
JobFails(s) ==
  /\ pc = "dispatch" /\ job[s] \in {"start", "called"}
  /\ job[s] = "start" => ~job_can_reuse(fs, s)
  /\ job' = [job EXCEPT ![s] = "failed"]
  /\ hist' = [hist EXCEPT !.last = <<"job_failed", s>>]
  /\ UNCHANGED <<fs, clock, samples, pc, i, vcfs, vcf_by_sample, sex_by_sample, run,
                 envsteps, rec, depth_cutoff, gt_bases>>

\* lines 31-34: every job has returned
DispatchDone ==
  /\ pc = "dispatch"
  /\ \A s \in Range(samples) : job[s] = "done"
  /\ vcf_by_sample' = zip_dict(samples, vcfs)
  /\ pc' = "annotate"
  /\ i' = 1
  /\ hist' = [hist EXCEPT !.last = <<"dispatched", "">>]
  /\ UNCHANGED <<fs, clock, samples, job, vcfs, sex_by_sample, run, envsteps,
                 rec, depth_cutoff, gt_bases>>

\* lines 30-33: a job has failed and the error leaves genotype()
DispatchAbort ==
  /\ pc = "dispatch"
  /\ \E s \in Range(samples) : job[s] = "failed"
  /\ pc' = "failed"
  /\ hist' = [hist EXCEPT !.last = <<"dispatch_failed", "">>]
  /\ UNCHANGED <<fs, clock, samples, job, i, vcfs, vcf_by_sample, sex_by_sample, run,
                 envsteps, rec, depth_cutoff, gt_bases>>

\* _annotate_vcf, lines 166-181: the annotated copy is written record by record;
\* a record whose position is not in the panel raises KeyError
AnnotateWrite ==
  /\ pc = "annotate"
  /\ LET s == samples[i]
         vcf_file == vcf_by_sample[s]
         bed == fs[snp_bed].lines
         recs == records(fs[vcf_file].lines)
         miss == first_miss(bed, recs)
         good == IF miss = 0 THEN recs ELSE SubSeq(recs, 1, miss - 1)
     IN /\ \E hdr \in WriterHeaders(header(fs[vcf_file].lines)) :
             fs' = [fs EXCEPT ![add_suffix(vcf_file, "ann")] =
                      [m |-> clock + 1,
                       lines |-> hdr \o [k \in 1..Len(good) |-> annotate_rec(bed, good[k])]]]
        /\ pc' = IF miss = 0 THEN "annotate_commit" ELSE annotate_next(FALSE, i, Len(samples))[1]
        /\ i' = IF miss = 0 THEN i ELSE annotate_next(FALSE, i, Len(samples))[2]
        /\ hist' = [hist EXCEPT !.last = <<IF miss = 0 THEN "annotate_write" ELSE "lookup_miss", s>>]
  /\ clock' = clock + 1
  /\ UNCHANGED <<samples, job, vcfs, vcf_by_sample, sex_by_sample, run, envsteps,
                 rec, depth_cutoff, gt_bases>>

\* _annotate_vcf, lines 183-187
AnnotateCommit ==
  /\ pc = "annotate_commit"
  /\ LET s == samples[i]
         dst == vcf_by_sample[s]
         tmp == add_suffix(dst, "ann")
         ok == verify_file(fs, tmp) /\ same_line_count(fs, dst, tmp)
     IN /\ fs' = commit(fs, tmp, dst, ok)
        /\ pc' = annotate_next(ok, i, Len(samples))[1]
        /\ i' = annotate_next(ok, i, Len(samples))[2]
        /\ hist' = [hist EXCEPT !.last = <<IF ok THEN "annotate" ELSE "annotate_failed", s>>,
                                !.ok = IF ok THEN @ \cup {<<"annotate", s>>} ELSE @]
  /\ UNCHANGED <<clock, samples, job, vcfs, vcf_by_sample, sex_by_sample, run, envsteps,
                 rec, depth_cutoff, gt_bases>>

\* vcf_to_fasta, lines 237-250, for the sample the loop of lines 43-45 is at
Encode ==
  /\ pc = "encode"
  /\ LET s == samples[i]
         vcf_file == vcf_by_sample[s]
         fasta_file == fasta_by_sample(s)
         reuse == can_reuse(fs, fasta_file, {vcf_file})
     IN /\ fs' = IF reuse THEN fs
                 ELSE [fs EXCEPT ![fasta_file] =
                         [m |-> clock + 1,
                          lines |-> fasta_lines(s, records(fs[vcf_file].lines), DEPTH_CUTOFF)]]
        /\ clock' = IF reuse THEN clock ELSE clock + 1
        /\ hist' = [hist EXCEPT !.last = <<IF reuse THEN "encode_reused" ELSE "encode", s>>,
                                !.ok = @ \cup {<<"encode", s>>}]
  /\ pc' = IF i < Len(samples) THEN "encode" ELSE "merge"
  /\ i' = IF i < Len(samples) THEN i + 1 ELSE 1
  /\ UNCHANGED <<samples, job, vcfs, vcf_by_sample, sex_by_sample, run, envsteps,
                 rec, depth_cutoff, gt_bases>>

\* lines 47-54
Merge ==
  /\ pc = "merge"
  /\ fs' = merge_effect(fs, samples, clock + 1)
  /\ clock' = IF fs' = fs THEN clock ELSE clock + 1
  /\ hist' = [hist EXCEPT !.last = <<"merge", IF fs' = fs THEN "reused" ELSE "written">>,
                          !.cohort_written = (fs' # fs)]
  /\ pc' = "sex"
  /\ i' = 1
  /\ UNCHANGED <<samples, job, vcfs, vcf_by_sample, sex_by_sample, run, envsteps,
                 rec, depth_cutoff, gt_bases>>

\* lines 58-64: calc_avg_depth for the sample the loop is at; after the last
\* sample genotype() returns
SexCheck ==
  /\ pc = "sex"
  /\ LET s == samples[i]
         recs == records(fs[vcf_by_sample[s]].lines)
         ok == Len(recs) > 0
         last == i = Len(samples)
     IN /\ sex_by_sample' = IF ok THEN [sex_by_sample EXCEPT ![s] = <<sum_depths(recs), Len(recs)>>]
                            ELSE sex_by_sample
        /\ pc' = IF ~ok THEN "failed" ELSE IF last THEN "done" ELSE "sex"
        /\ i' = IF ok /\ ~last THEN i + 1 ELSE i
        /\ hist' = [hist EXCEPT !.last = <<IF ok THEN "sex" ELSE "sex_failed", s>>,
                                !.prev = IF ok /\ last
                                         THEN [valid |-> TRUE, samples |-> samples,
                                               files |-> [p \in FastaPaths |-> fs[p]]]
                                         ELSE @]
  /\ UNCHANGED <<fs, clock, samples, job, vcfs, vcf_by_sample, run, envsteps,
                 rec, depth_cutoff, gt_bases>>

\* the environment replaces a sample's alignment file
TouchBam(s) ==
  /\ envsteps < MaxTouch
  /\ run > 0
  /\ envsteps' = envsteps + 1
  /\ fs' = [fs EXCEPT ![bam(s)].m = clock + 1]
  /\ clock' = clock + 1
  /\ hist' = [hist EXCEPT !.last = <<"touch", s>>, !.prev = NoPrev]
  /\ UNCHANGED <<samples, pc, job, i, vcfs, vcf_by_sample, sex_by_sample, run,
                 rec, depth_cutoff, gt_bases>>

Init ==
  /\ InitPipe
  /\ rec = NoRec /\ depth_cutoff = DEPTH_CUTOFF /\ gt_bases = Unset

Next ==
  \/ \E cohort \in Cohorts : StartRun(cohort, MaxRuns)
  \/ \E s \in Names : JobReuse(s)
  \/ \E s \in Names : RunVarDict(s)
  \/ \E s \in Names : Convert(s)
  \/ \E s \in Names : FixWrite(s)
  \/ \E s \in Names : FixCommit(s)
  \/ \E s \in Names : JobFails(s)
  \/ DispatchDone
  \/ DispatchAbort
  \/ AnnotateWrite
  \/ AnnotateCommit
  \/ Encode
  \/ Merge
  \/ SexCheck

Spec == Init /\ [][Next]_vars

\* runs of genotype() on one sample whose alignment file may be replaced
NextJob ==
  \/ \E cohort \in JobCohorts : StartRun(cohort, MaxJobRuns)
  \/ \E s \in Names : JobReuse(s)
  \/ \E s \in Names : RunVarDict(s)
  \/ \E s \in Names : Convert(s)
  \/ \E s \in Names : FixWrite(s)
  \/ \E s \in Names : FixCommit(s)
  \/ \E s \in Names : JobFails(s)
  \/ DispatchDone
  \/ DispatchAbort
  \/ AnnotateWrite
  \/ AnnotateCommit
  \/ Encode
  \/ Merge
  \/ SexCheck
  \/ \E cohort \in JobCohorts : \E s \in Range(cohort) : TouchBam(s)

SpecJob == Init /\ [][NextJob]_vars

\* ------------------------------------------------------------------------
\* The merge step of lines 47-54 on its own, between rewrites of fingerprints
\* ------------------------------------------------------------------------

FingerprintCodes == { <<"C","T">>, <<"N","N">>, <<"C","T","G","G">> }

InitMerge ==
  /\ \E cohort \in Cohorts, ca \in FingerprintCodes, cb \in FingerprintCodes :
       /\ samples = cohort
       /\ fs = [InitFiles EXCEPT
                  ![fasta_by_sample("a")] = [m |-> 2, lines |-> << <<">", "a">>, ca >>],
                  ![fasta_by_sample("b")] = [m |-> 3, lines |-> << <<">", "b">>, cb >>]]
  /\ clock = 3
  /\ pc = "merge"
  /\ job = [s \in Names |-> "none"]
  /\ i = 1
  /\ vcfs = [k \in 1..MaxCohort |-> NoPath]
  /\ vcf_by_sample = [s \in Names |-> NoPath]
  /\ sex_by_sample = [s \in Names |-> <<>>]
  /\ run = 0
  /\ envsteps = 0
  /\ hist = [last |-> <<"init", "">>, ok |-> {}, cohort_written |-> FALSE, prev |-> NoPrev]
  /\ rec = NoRec /\ depth_cutoff = DEPTH_CUTOFF /\ gt_bases = Unset

\* lines 47-54 run once more
MergeStep ==
  /\ fs' = merge_effect(fs, samples, clock + 1)
  /\ clock' = IF fs' = fs THEN clock ELSE clock + 1
  /\ hist' = [hist EXCEPT !.last = <<"merge", IF fs' = fs THEN "reused" ELSE "written">>,
                          !.cohort_written = (fs' # fs)]
  /\ UNCHANGED <<samples, pc, job, i, vcfs, vcf_by_sample, sex_by_sample, run, envsteps,
                 rec, depth_cutoff, gt_bases>>

\* vcf_to_fasta writes the fingerprint of s anew (lines 246-248)
RewriteFasta(s, codes) ==
  /\ envsteps < MaxRewrites
  /\ envsteps' = envsteps + 1
  /\ fs' = [fs EXCEPT ![fasta_by_sample(s)] = [m |-> clock + 1, lines |-> << <<">", s>>, codes >>]]
  /\ clock' = clock + 1
  /\ hist' = [hist EXCEPT !.last = <<"encode", s>>]
  /\ UNCHANGED <<samples, pc, job, i, vcfs, vcf_by_sample, sex_by_sample, run,
                 rec, depth_cutoff, gt_bases>>

NextMerge ==
  \/ MergeStep
  \/ \E s \in Names, codes \in FingerprintCodes : RewriteFasta(s, codes)

SpecMerge == InitMerge /\ [][NextMerge]_vars

\* ------------------------------------------------------------------------
\* vcfrec_to_seq on its own
\* ------------------------------------------------------------------------

InitEnc ==
  /\ InitPipe
  /\ rec \in RecDomain
  /\ depth_cutoff \in (MaxCutoff - 1)..MaxCutoff
  /\ gt_bases = Unset

\* one call of vcfrec_to_seq(rec, depth_cutoff)
EncodeRecord ==
  /\ gt_bases = Unset
  /\ rec # NoRec
  /\ gt_bases' = vcfrec_to_seq(rec, depth_cutoff)
  /\ UNCHANGED <<rec, depth_cutoff>>
  /\ UNCHANGED pipevars

NextEnc == EncodeRecord

SpecEnc == InitEnc /\ [][NextEnc]_vars

\* ------------------------------------------------------------------------
\* Properties
\* ------------------------------------------------------------------------

VcfPathOf(s) == <<"out/vcf", s, "", ".vcf">>
RawPathOf(s) == <<"out/vcf", s, "", "_vars.txt">>
FixedPathOf(s) == <<"out/vcf", s, ".fixed", ".vcf">>
AnnPathOf(s) == <<"out/vcf", s, ".ann", ".vcf">>
FastaPathOf(s) == <<"work", s, "", ".fasta">>
BamPathOf(s) == <<"bams", s, "", ".bam">>
CohortPath == <<"out", "fingerprints", "", ".fasta">>
AutosomalPanelPath == <<"work", "snps", ".autosomal", ".bed">>

\* the panel has two autosomal loci (chr1:100, chr2:150) and one on chrX
AutosomalLoci == Cardinality({ <<<<"c","h","r","1">>, 100>>, <<<<"c","h","r","2">>, 150>> })

\* C1: every fingerprint file holds exactly one two-character code per
\* autosomal locus of the panel, whatever records the caller and the
\* TYPE=SNV/TYPE=REF filter left in the sample's variant file.
C1_FingerprintLength ==
  \A s \in Names :
    fs[FastaPathOf(s)].m # 0 => Len(fs[FastaPathOf(s)].lines[2]) = 2 * AutosomalLoci

SexTokens == { <<"c","h","r","X">>, <<"X">>, <<"y">>, <<"C","H","R","Y">> }

\* C2 as stated: a record on a sex-linked chromosome encodes to NN, whatever
\* its depth, filter tags and genotype call are.
C2_SexLinkedNN ==
  (gt_bases # Unset /\ rec.CHROM \in SexTokens) => gt_bases = <<"N", "N">>

\* C2 as amended: a record on a sex-linked chromosome encodes to the empty
\* string, whatever its depth, filter tags and genotype call are.
C2_SexLinkedEmpty ==
  (gt_bases # Unset /\ rec.CHROM \in SexTokens) => gt_bases = <<>>

C2_Witness ==
  /\ gt_bases = <<>>
  /\ rec.CHROM = <<"X">>
  /\ rec.DP >= depth_cutoff /\ rec.FILTER = <<>> /\ rec.GT = <<0, 1>>

BaseRank(b) == CASE b = "A" -> 1 [] b = "C" -> 2 [] b = "G" -> 3 [] b = "T" -> 4

\* C3: on a non-sex chromosome the code is NN when DP < cutoff (strictly), or
\* FILTER has MSI12 or InGap, or the genotype is uncalled; otherwise it is the
\* two called bases in sorted order. DP equal to the cutoff is not masked.
C3_AutosomalCode ==
  (gt_bases # Unset /\ rec.CHROM \notin SexTokens) =>
    LET masked == \/ rec.DP < depth_cutoff
                  \/ \E k \in 1..Len(rec.FILTER) : rec.FILTER[k] = "MSI12" \/ rec.FILTER[k] = "InGap"
                  \/ rec.GT = <<>>
        x == IF rec.GT[1] = 0 THEN rec.REF[1] ELSE rec.ALT[1]
        y == IF rec.GT[2] = 0 THEN rec.REF[1] ELSE rec.ALT[1]
    IN IF masked THEN gt_bases = <<"N", "N">>
       ELSE gt_bases = (IF BaseRank(x) <= BaseRank(y) THEN <<x, y>> ELSE <<y, x>>)

C3_Witness ==
  /\ gt_bases = <<"C", "T">>
  /\ rec.DP = depth_cutoff
  /\ rec.REF = <<"T">> /\ rec.ALT = <<"C">> /\ rec.GT = <<0, 1>>
  /\ rec.FILTER = <<"q22.5">>

\* C4: when the repair or the annotation changes the file at a sample's variant
\* path, the new file is the complete temporary output and has as many lines as
\* the file it replaces.
C4_ReplacePreservesLines ==
  [][\A s \in Names :
       ( /\ \/ (pc = "dispatch" /\ job[s] \in {"converted", "fixing"})
            \/ (pc \in {"annotate", "annotate_commit"} /\ samples[i] = s)
         /\ fs'[VcfPathOf(s)] # fs[VcfPathOf(s)] )
       => \E tmp \in {FixedPathOf(s), AnnPathOf(s)} :
            /\ fs'[VcfPathOf(s)] = fs[tmp]
            /\ fs[tmp].m # 0
            /\ Len(fs[tmp].lines) = Len(fs[VcfPathOf(s)].lines)]_vars

C4_Witness ==
  /\ hist.last = <<"annotate", "b">>
  /\ fs[VcfPathOf("b")].m = clock
  /\ fs[AnnPathOf("b")].m = 0
  /\ \E k \in 1..Len(fs[VcfPathOf("b")].lines) : fs[VcfPathOf("b")].lines[k].GENE = "GENEA"

\* C5: the merge step writes the fingerprint records in the order of the
\* samples, and a merge step that follows a merge step with no fingerprint
\* rewritten in between changes no file.
C5_MergeOrderedIdempotent ==
  /\ [][(hist'.last[1] = "merge" /\ fs'[CohortPath] # fs[CohortPath]) =>
          /\ Len(fs'[CohortPath].lines) = 2 * Len(samples)
          /\ \A k \in 1..Len(samples) :
               /\ fs'[CohortPath].lines[2 * k - 1] = fs[FastaPathOf(samples[k])].lines[1]
               /\ fs'[CohortPath].lines[2 * k] = fs[FastaPathOf(samples[k])].lines[2]]_vars
  /\ [][(hist.last[1] = "merge" /\ hist'.last[1] = "merge") => fs' = fs]_vars

C5_Witness ==
  /\ hist.last = <<"merge", "reused">>
  /\ envsteps > 0
  /\ samples = <<"b", "a">>
  /\ fs[CohortPath].lines[1] = <<">", "b">>

NewerThanInputs(f, p, s) ==
  /\ f[p].m # 0
  /\ f[p].m > f[BamPathOf(s)].m
  /\ f[p].m > f[AutosomalPanelPath].m

JobDecides(s) == pc = "dispatch" /\ job[s] = "start" /\ job'[s] \in {"done", "called"}

JobIsNoop(s) ==
  /\ job'[s] = "done"
  /\ fs' = fs
  /\ \E k \in 1..Len(samples) : samples[k] = s /\ vcfs'[k] = VcfPathOf(s)

\* C6 as stated: a job is a no-op exactly when the raw pileup output and the
\* variant file both exist and are newer than the alignment file and the panel
\* file; otherwise the caller is run again.
C6_NoopIffNewerThanInputs ==
  [][\A s \in Names :
       JobDecides(s) =>
         /\ JobIsNoop(s) <=> (NewerThanInputs(fs, RawPathOf(s), s) /\ NewerThanInputs(fs, VcfPathOf(s), s))
         /\ ~JobIsNoop(s) => (job'[s] = "called" /\ fs'[RawPathOf(s)].m = clock')]_vars

\* C6 as amended: a job is a no-op exactly when the raw pileup output exists
\* and is newer than the alignment file and the panel file, and the variant
\* file exists and is newer than the raw pileup output; otherwise the caller is
\* run again, and the job returns only after the repair.
C6_NoopIffChainNewer ==
  [][\A s \in Names :
       /\ JobDecides(s) =>
            /\ JobIsNoop(s) <=> ( /\ NewerThanInputs(fs, RawPathOf(s), s)
                                  /\ fs[VcfPathOf(s)].m > fs[RawPathOf(s)].m )
            /\ ~JobIsNoop(s) => (job'[s] = "called" /\ fs'[RawPathOf(s)].m = clock')
       /\ (pc = "dispatch" /\ job[s] # "start" /\ job'[s] = "done" /\ job[s] # "done")
            => (job[s] = "fixing" /\ fs'[VcfPathOf(s)] = fs[FixedPathOf(s)])]_vars

C6_Witness ==
  /\ hist.last = <<"reuse", "a">>
  /\ run >= 2
  /\ job["a"] = "done"

\* C7: the cohort file is written in a run only after the dispatcher job, the
\* annotation and the encoding have succeeded for every sample of the run, it
\* then holds one fingerprint record per sample, and a run that fails in one
\* of these stages has not written it.
C7_CohortOnlyAfterAll ==
  /\ hist.cohort_written =>
       /\ \A k \in 1..Len(samples) :
            /\ {<<"job", samples[k]>>, <<"annotate", samples[k]>>, <<"encode", samples[k]>>} \subseteq hist.ok
            /\ fs[CohortPath].lines[2 * k - 1] = <<">", samples[k]>>
       /\ Len(fs[CohortPath].lines) = 2 * Len(samples)
  /\ (pc = "failed" /\ hist.last[1] # "sex_failed") => ~hist.cohort_written

C7_Witness ==
  /\ hist.cohort_written
  /\ pc = "done"
  /\ Len(samples) = 2

PanelKeys == { <<<<"c","h","r","1">>, 100>>, <<<<"c","h","r","2">>, 150>>, <<<<"c","h","r","X">>, 200>> }

LookupMiss(s) ==
  /\ pc = "annotate" /\ samples[i] = s
  /\ \E k \in 1..Len(fs[VcfPathOf(s)].lines) :
       /\ fs[VcfPathOf(s)].lines[k].kind = "rec"
       /\ <<fs[VcfPathOf(s)].lines[k].CHROM, fs[VcfPathOf(s)].lines[k].POS>> \notin PanelKeys

CountMismatch(s) ==
  \/ /\ pc = "annotate_commit" /\ samples[i] = s
     /\ Len(fs[AnnPathOf(s)].lines) # Len(fs[VcfPathOf(s)].lines)
  \/ /\ pc = "dispatch" /\ job[s] = "fixing"
     /\ Len(fs[FixedPathOf(s)].lines) # Len(fs[VcfPathOf(s)].lines)

\* C8: a lookup miss or a line-count mismatch makes the stage raise: the
\* variant file stays as it was, the run is over, and no fingerprint, cohort
\* file or sex call is produced after it in that run.
C8_IntegrityFatal ==
  /\ [][\A s \in Names :
          (LookupMiss(s) \/ CountMismatch(s)) =>
             /\ fs'[VcfPathOf(s)] = fs[VcfPathOf(s)]
             /\ pc' = "failed" \/ job'[s] = "failed"]_vars
  /\ [][pc = "failed" =>
          \/ pc' = "dispatch" /\ run' = run + 1
          \/ /\ pc' = "failed"
             /\ \A p \in FastaPaths : fs'[p] = fs[p]
             /\ sex_by_sample' = sex_by_sample]_vars
  /\ []((\E s \in Range(samples) : job[s] = "failed") => pc \in {"dispatch", "failed"})

C8_Witness ==
  /\ pc = "failed"
  /\ hist.last = <<"annotate_failed", "b">>
  /\ samples = <<"a", "b">>
  /\ fs[VcfPathOf("b")].m # 0
  /\ fs[AnnPathOf("b")].m > fs[VcfPathOf("b")].m

C10_SecondRunReuses ==
  hist.prev.valid =>
    /\ \A s \in Range(hist.prev.samples) : fs[FastaPathOf(s)] = hist.prev.files[FastaPathOf(s)]
    /\ fs[CohortPath] = hist.prev.files[CohortPath]

====
